---- MODULE Spec2Model ----
(***************************************************************************)
(* SMART CVD Risk Reduction (src/app_final_fixed.py): the Streamlit script *)
(* as a state machine over its session state, and its four risk functions  *)
(* as operators.                                                           *)
(*                                                                         *)
(* Numbers.  The script computes in Python floats.  Here every quantity is *)
(* an integer count of a named unit:                                       *)
(*   - LDL cholesterol: micro-mmol/L (LdlUnit units per mmol/L);           *)
(*   - percentages returned by the risk functions: tenths of a percent,    *)
(*     which is exactly the grid round(x, 1) produces;                     *)
(*   - tc, hdl, crp: tenths of their unit; age, sbp, egfr: whole numbers;  *)
(*   - intermediate reals (lp, exp, log, power): fixed point, Scale units  *)
(*     per 1.0, every product and quotient rounded to the nearest unit, as *)
(*     a float operation rounds to the nearest representable value.        *)
(*     At this resolution the risk functions agree with the float results  *)
(*     except next to a rounding tie, where they may differ by one tenth.  *)
(***************************************************************************)
EXTENDS Integers, Sequences, FiniteSets, TLC

VARIABLES
    session_state,    \* st.session_state: the profile, carried across reruns
    step,             \* the sidebar radio's selection in the current run
    defined,          \* module-level names the current run has bound
    error,            \* "" or the exception that ended the current run
    results,          \* what the current run of step 4 computed and wrote
    post_ldl,         \* step 3's projected LDL, None when never computed
    runs,             \* reruns of the script so far in this session
    fn, args, ret     \* a direct call of one risk function, its arguments, its result

vars == <<session_state, step, defined, error, results, post_ldl, runs, fn, args, ret>>

appVars == <<session_state, step, defined, error, results, post_ldl, runs>>
callVars == <<fn, args, ret>>

\* Python's None and a present value.
None == << >>
Some(x) == <<x>>
IsNone(o) == Len(o) = 0
Val(o) == o[1]

Min(a, b) == IF a <= b THEN a ELSE b
Max(a, b) == IF a >= b THEN a ELSE b
Abs(a) == IF a < 0 THEN -a ELSE a

(***************************************************************************)
(* Fixed-point arithmetic standing for float arithmetic.                   *)
(***************************************************************************)
Scale == 10^6

\* n / d for n >= 0, d > 0, rounded to the nearest integer.
RoundDiv(n, d) == (n + d \div 2) \div d

\* a * b for fixed-point a, b >= 0, rounded; split so no partial product leaves
\* the 32-bit range.
MulFx(a, b) ==
    LET a1 == a \div 1000
        a0 == a % 1000
        b1 == b \div 1000
        b0 == b % 1000
    IN  a1 * b1 + RoundDiv(a1 * b0 + a0 * b1 + RoundDiv(a0 * b0, 1000), 1000)

\* Signed product, rounded toward zero.
MulFxS(a, b) ==
    LET m == MulFx(Abs(a), Abs(b))
    IN  IF (a < 0) = (b < 0) THEN m ELSE -m

\* a / b for fixed-point 0 <= a, 0 < b, rounded: long division, two decimal
\* digits at a time.
RECURSIVE LongDiv(_, _, _)
LongDiv(a, b, pairs) ==
    IF pairs = 0 THEN RoundDiv(a, b)
    ELSE (a \div b) * 100^pairs + LongDiv((a % b) * 100, b, pairs - 1)

DivFx(a, b) == LongDiv(a, b, 3)

Ln2 == 693147

\* sum over k >= from of term * r^(k-from) * from!/k!, to the 14th power of r.
RECURSIVE ExpSeries(_, _, _)
ExpSeries(r, term, k) ==
    IF k > 14 \/ term = 0 THEN 0
    ELSE term + ExpSeries(r, RoundDiv(MulFx(term, r), k), k + 1)

\* math.exp(x), and the x.__pow__ it underlies: e^x = 2^n * e^r, 0 <= r < ln 2.
\* Above 2^30 units the result saturates.
Exp(x) ==
    LET n == x \div Ln2
        r == x - n * Ln2
        e == ExpSeries(r, Scale, 1)
    IN  IF n > 9 THEN 2^30
        ELSE IF n >= 0 THEN e * 2^n
        ELSE IF n < -30 THEN 0
        ELSE RoundDiv(e, 2^(-n))

\* sum over odd k >= from of 2 * u^k / k, u < 1/3.
RECURSIVE AtanhSeries(_, _, _)
AtanhSeries(u2, pw, k) ==
    IF k > 21 \/ pw = 0 THEN 0
    ELSE RoundDiv(2 * pw, k) + AtanhSeries(u2, MulFx(pw, u2), k + 2)

\* log of a mantissa m in [1, 2): 2 * atanh((m - 1) / (m + 1)).
LnMantissa(m) ==
    LET u == DivFx(m - Scale, m + Scale)
    IN  AtanhSeries(MulFx(u, u), u, 1)

\* math.log(x) for x > 0: x = 2^n * m, log x = n * ln 2 + log m.
RECURSIVE Ln(_)
Ln(x) ==
    IF x >= 2 * Scale THEN Ln2 + Ln(x \div 2)
    ELSE IF x < Scale THEN Ln(x * 2) - Ln2
    ELSE LnMantissa(x)

\* x ** y for x > 0.
Pow(x, y) == Exp(MulFxS(y, Ln(x)))

\* round(v, 1) of a fixed-point percentage v/Scale * 100, in tenths of a percent.
Round1(v) == RoundDiv(v, 1000)

(***************************************************************************)
(* Utility and risk functions.                                             *)
(***************************************************************************)
LdlUnit == 10^6

\* The floor of the projection, 0.5 mmol/L.
LdlFloor == LdlUnit \div 2

\* E with the two statins' reductions exchanged.
E_StatinsSwapped ==
    [d \in {"Atorvastatin 80 mg", "Rosuvastatin 20 mg", "Ezetimibe 10 mg",
             "Bempedoic acid", "PCSK9 inhibitor", "Inclisiran"} |->
        CASE d = "Atorvastatin 80 mg" -> 55
          [] d = "Rosuvastatin 20 mg" -> 50
          [] d = "Ezetimibe 10 mg"    -> 20
          [] d = "Bempedoic acid"     -> 18
          [] d = "PCSK9 inhibitor"    -> 60
          [] d = "Inclisiran"         -> 55]

\* E: the LDL reduction of each therapy, in percent.
E == [d \in {"Atorvastatin 80 mg", "Rosuvastatin 20 mg", "Ezetimibe 10 mg",
             "Bempedoic acid", "PCSK9 inhibitor", "Inclisiran"} |->
        CASE d = "Atorvastatin 80 mg" -> 50
          [] d = "Rosuvastatin 20 mg" -> 55
          [] d = "Ezetimibe 10 mg"    -> 20
          [] d = "Bempedoic acid"     -> 18
          [] d = "PCSK9 inhibitor"    -> 60
          [] d = "Inclisiran"         -> 55]

\* The loop body with the sign of the reduction slipped: ldl *= (1 + E[drug]).
ApplyDrug_Raising(ldl, drug) ==
    IF drug \in DOMAIN E THEN RoundDiv(ldl * (100 + E[drug]), 100) ELSE ldl

\* One pass of the loop body: ldl *= (1 - E[drug]) when drug is in E.
ApplyDrug(ldl, drug) ==
    IF drug \in DOMAIN E THEN RoundDiv(ldl * (100 - E[drug]), 100) ELSE ldl

\* for drug in drugs: ...
RECURSIVE LdlLoop(_, _)
LdlLoop(ldl, drugs) ==
    IF drugs = << >> THEN ldl
    ELSE LdlLoop(ApplyDrug(ldl, Head(drugs)), Tail(drugs))

\* The projection without its floor: return ldl.
calculate_ldl_projection_NoFloor(baseline_ldl, pre_list, new_list) ==
    LdlLoop(baseline_ldl, pre_list \o new_list)

calculate_ldl_projection(baseline_ldl, pre_list, new_list) ==
    Max(LdlLoop(baseline_ldl, pre_list \o new_list), LdlFloor)

\* The cap on every reported risk, 95.0 percent, in tenths of a percent.
RiskCap == 950

\* lp with the sign of the blood-pressure term slipped.
LinearPredictor_SbpNegated(age, sex, sbp, tc, hdl, smoker, diabetes, egfr, crp, vasc) ==
    LET sex_v   == IF sex = "Male" THEN 1 ELSE 0
        smoke_v == IF smoker THEN 1 ELSE 0
        dm_v    == IF diabetes THEN 1 ELSE 0
        crp_l   == Ln((crp + 10) * (Scale \div 10))
    IN  64000 * age + 340000 * sex_v - 20000 * sbp + 25000 * tc
        - 25000 * hdl + 440000 * smoke_v + 510000 * dm_v
        - 20000 * egfr + MulFx(250000, crp_l) + 400000 * vasc

\* lp, fixed point.  tc, hdl and crp come in tenths.
LinearPredictor(age, sex, sbp, tc, hdl, smoker, diabetes, egfr, crp, vasc) ==
    LET sex_v   == IF sex = "Male" THEN 1 ELSE 0
        smoke_v == IF smoker THEN 1 ELSE 0
        dm_v    == IF diabetes THEN 1 ELSE 0
        crp_l   == Ln((crp + 10) * (Scale \div 10))
    IN  64000 * age + 340000 * sex_v + 20000 * sbp + 25000 * tc
        - 25000 * hdl + 440000 * smoke_v + 510000 * dm_v
        - 20000 * egfr + MulFx(250000, crp_l) + 400000 * vasc

\* The result is in tenths of a percent.
estimate_10y_risk(age, sex, sbp, tc, hdl, smoker, diabetes, egfr, crp, vasc) ==
    LET lp  == LinearPredictor(age, sex, sbp, tc, hdl, smoker, diabetes, egfr, crp, vasc)
        raw == Scale - Pow(900000, Exp(lp - 5800000))
    IN  Min(Round1(raw), RiskCap)

\* The least c with c * c * den >= num: the ceiling of sqrt(num / den).
RECURSIVE CeilSqrt(_, _, _, _)
CeilSqrt(num, den, lo, hi) ==
    IF lo >= hi THEN lo
    ELSE LET mid == (lo + hi) \div 2
         IN  IF mid * mid * den >= num THEN CeilSqrt(num, den, lo, mid)
             ELSE CeilSqrt(num, den, mid + 1, hi)

\* Units of r10 per percent in convert_5yr's argument: the function takes any
\* float, so its argument is finer than the tenths it returns.
FineUnit == 10^5

\* r10 in 1/FineUnit percent, the result in tenths of a percent.  The square
\* root is algebraic, so the rounding is decided exactly: with q = 1 - p,
\* round(100 * (1 - sqrt(q)), 1) = k/10 for the k with
\* k - 1/2 <= 1000 - 1000 * sqrt(q) < k + 1/2, that is
\* k = floor((2001 - ceil(2000 * sqrt(q))) / 2) (2000 * sqrt(q) = k' + 1/2 has
\* no rational solution on this grid), and 2000 * sqrt(q) = sqrt(4 * N / 10)
\* for N = 100 * FineUnit - p.
convert_5yr(r10) ==
    LET p == Min(r10, 95 * FineUnit)
        N == 100 * FineUnit - p
        c == CeilSqrt(4 * N, (100 * FineUnit) \div 10^6, 0, 2000)
    IN  Min((2001 - c) \div 2, RiskCap)

\* r10 and the result in tenths of a percent.
estimate_lifetime_risk(age, r10) ==
    LET years  == Max(85 - age, 0)
        p10    == Min(r10, RiskCap) * (Scale \div 1000)
        annual == Scale - Pow(Scale - p10, Scale \div 10)
        lt     == Scale - Pow(Scale - annual, years * Scale)
    IN  Min(Round1(lt), RiskCap)

\* f"{x:.1f}" of x tenths.
fmt1(x) ==
    (IF x < 0 THEN "-" ELSE "") \o ToString(Abs(x) \div 10) \o "." \o ToString(Abs(x) % 10)

fmt_pct(x) == fmt1(x) \o "%"
fmt_pp(x) == fmt1(x) \o " pp"

\* The values round(n / d * 100, 1) can take, in tenths, for n and d in tenths
\* (d > 0): the nearest tenth, and at an exact tie either neighbour, since the
\* float quotient may fall on either side of it.
RoundPct(n, d) ==
    LET q   == (n * 1000) \div d
        rem == n * 1000 - q * d
    IN  IF 2 * rem < d THEN {q}
        ELSE IF 2 * rem > d THEN {q + 1}
        ELSE {q, q + 1}

(***************************************************************************)
(* The script.  Streamlit runs it from the top on every interaction, in a  *)
(* fresh namespace; only st.session_state is carried over.                 *)
(* Every key of st.session_state is taken to keep its value from run to    *)
(* run, whether or not the run renders its widget.                         *)
(***************************************************************************)
Steps == {"1: Profile", "2: Labs", "3: Therapies", "4: Results"}

\* The session_state.update(...) of the first run.
Defaults ==
    [age |-> 60, sex |-> "Male", weight |-> 750, height |-> 1700,
     smoker |-> FALSE, diabetes |-> FALSE, egfr |-> 90,
     tc |-> 52, hdl |-> 13, ldl0 |-> 3 * LdlUnit, crp |-> 25,
     hba1c |-> 70, tg |-> 12,
     pre_stat |-> "None", pre_ez |-> FALSE, pre_bemp |-> FALSE,
     new_stat |-> "None", new_ez |-> FALSE, new_bemp |-> FALSE,
     sbp |-> 140]

Statins == {"None", "Atorvastatin 80 mg", "Rosuvastatin 20 mg"}

\* The widgets each step renders before anything can fail, by key, with the
\* values this model lets the user enter (each within the widget's range).
Widgets ==
    [s \in Steps |->
        CASE s = "1: Profile" ->
               [age |-> {30, 60, 75, 84, 85, 90}, sex |-> {"Male", "Female"},
                weight |-> {750, 900}, height |-> {1700},
                smoker |-> BOOLEAN, diabetes |-> BOOLEAN, egfr |-> {15, 90}]
          [] s = "2: Labs" ->
               [tc |-> {52, 100}, hdl |-> {5, 13},
                ldl0 |-> {LdlUnit \div 2, 3 * LdlUnit, 6 * LdlUnit},
                crp |-> {1, 25}, hba1c |-> {70, 90}, tg |-> {12, 30}]
          [] s = "3: Therapies" ->
               [pre_stat |-> Statins, pre_ez |-> BOOLEAN, pre_bemp |-> BOOLEAN,
                new_stat |-> Statins, new_ez |-> BOOLEAN, new_bemp |-> BOOLEAN]
          [] s = "4: Results" ->
               [sbp |-> {90, 140, 200}]]

\* What a run leaves behind: the names it bound, the exception that ended it,
\* step 4's figures and step 3's projection.
RunOutcome(names, exc, res, ldl) ==
    [defined |-> names, error |-> exc, results |-> res, post_ldl |-> ldl]

\* if step == "1: Profile"
RenderProfile(ss) ==
    {RunOutcome({"step", "age", "sex", "weight", "height", "bmi", "smoker",
                 "diabetes", "egfr"}, "", None, None)}

\* elif step == "2: Labs"
RenderLabs(ss) ==
    {RunOutcome({"step", "tc", "hdl", "ldl0", "crp", "hba1c", "tg"}, "", None, None)}

\* The call's second and third arguments.
PreList(ss) ==
    <<ss.pre_stat>> \o (IF ss.pre_ez THEN <<"Ezetimibe 10 mg">> ELSE << >>)
        \o (IF ss.pre_bemp THEN <<"Bempedoic acid">> ELSE << >>)

NewList(ss) ==
    <<ss.new_stat>> \o (IF ss.new_ez THEN <<"Ezetimibe 10 mg">> ELSE << >>)
        \o (IF ss.new_bemp THEN <<"Bempedoic acid">> ELSE << >>)

\* elif step == "3: Therapies".  The call's first argument is the bare name
\* ldl0: a NameError unless this run has bound it.
RenderTherapies(ss) ==
    LET names == {"step", "pre_stat", "pre_ez", "pre_bemp",
                  "new_stat", "new_ez", "new_bemp"}
    IN  IF "ldl0" \notin names
        THEN {RunOutcome(names, "NameError", None, None)}
        ELSE {RunOutcome(names \cup {"post_ldl", "pcsk9", "inclisiran"}, "", None,
                         Some(calculate_ldl_projection(ss.ldl0, PreList(ss), NewList(ss))))}

\* sum([pre_stat != "None", pre_ez, pre_bemp])
VascCount(ss) ==
    (IF ss.pre_stat # "None" THEN 1 ELSE 0) + (IF ss.pre_ez THEN 1 ELSE 0)
        + (IF ss.pre_bemp THEN 1 ELSE 0)

\* elif step == "4: Results"
RenderResults(ss) ==
    LET names == {"step", "sbp", "r10", "r5", "rlt", "lifetime_display", "fig",
                  "arr10", "rrr10"}
        r10   == estimate_10y_risk(ss.age, ss.sex, ss.sbp, ss.tc, ss.hdl, ss.smoker,
                                   ss.diabetes, ss.egfr, ss.crp, VascCount(ss))
        r5    == convert_5yr(r10 * (FineUnit \div 10))
        rlt   == estimate_lifetime_risk(ss.age, r10)
        lifetime_display == IF ss.age >= 85 THEN "N/A" ELSE fmt_pct(rlt)
        chart == <<Some(r5), Some(r10), IF ss.age < 85 THEN Some(rlt) ELSE None>>
        arr10 == IF ss.age < 85 THEN Some(r10 - rlt) ELSE None
        \* "if arr10": neither None nor 0.0
        truthy(o) == ~IsNone(o) /\ Val(o) # 0
        Written(rrr10) ==
            [r10 |-> r10, r5 |-> r5, rlt |-> rlt,
             lifetime_display |-> lifetime_display, chart |-> chart,
             arr10 |-> arr10, rrr10 |-> rrr10,
             risk_text |-> "5-yr: " \o fmt_pct(r5) \o ", 10-yr: " \o fmt_pct(r10)
                               \o ", Lifetime: " \o lifetime_display,
             arr_text |-> IF truthy(arr10) THEN fmt_pp(Val(arr10)) ELSE "N/A",
             rrr_text |-> IF truthy(rrr10) THEN fmt_pct(Val(rrr10)) ELSE "N/A"]
    IN  IF ~truthy(arr10) THEN {RunOutcome(names, "", Some(Written(None)), None)}
        ELSE IF r10 = 0
        THEN {RunOutcome(names \ {"rrr10"}, "ZeroDivisionError", None, None)}
        ELSE {RunOutcome(names, "", Some(Written(Some(rrr))), None) :
                 rrr \in RoundPct(Val(arr10), r10)}

\* One run of the script under selection s and session state ss.
RunScript(s, ss) ==
    CASE s = "1: Profile"   -> RenderProfile(ss)
      [] s = "2: Labs"      -> RenderLabs(ss)
      [] s = "3: Therapies" -> RenderTherapies(ss)
      [] s = "4: Results"   -> RenderResults(ss)

\* The session length this model explores.
MaxRuns == 4

Rerun(s, ss) ==
    /\ runs < MaxRuns
    /\ runs' = runs + 1
    /\ step' = s
    /\ session_state' = ss
    /\ \E o \in RunScript(s, ss) :
          /\ defined' = o.defined
          /\ error' = o.error
          /\ results' = o.results
          /\ post_ldl' = o.post_ldl
    /\ UNCHANGED callVars

\* The user picks a step in the sidebar radio.
SelectStep(s) ==
    /\ s # step
    /\ Rerun(s, session_state)

\* The user changes the widget with key k, rendered by the current run, to v.
SetWidget(k, v) ==
    /\ k \in DOMAIN Widgets[step]
    /\ v \in Widgets[step][k]
    /\ v # session_state[k]
    /\ Rerun(step, [session_state EXCEPT ![k] = v])

NoCall ==
    /\ fn = ""
    /\ args = << >>
    /\ ret = None

\* The first run: defaults into the session state, the radio on its first option.
Init ==
    /\ session_state = Defaults
    /\ step = "1: Profile"
    /\ \E o \in RunScript("1: Profile", Defaults) :
          /\ defined = o.defined
          /\ error = o.error
          /\ results = o.results
          /\ post_ldl = o.post_ldl
    /\ runs = 0
    /\ NoCall

Next ==
    \/ \E s \in Steps : SelectStep(s)
    \/ \E k \in DOMAIN Widgets[step] : \E v \in Widgets[step][k] : SetWidget(k, v)

Spec == Init /\ [][Next]_vars

(***************************************************************************)
(* Direct calls of the risk functions, outside the script: fn is the       *)
(* function, args its arguments, ret its result.  The script is idle.      *)
(***************************************************************************)
ScriptIdle ==
    /\ session_state = Defaults
    /\ step = "1: Profile"
    /\ \E o \in RunScript("1: Profile", Defaults) :
          /\ defined = o.defined
          /\ error = o.error
          /\ results = o.results
          /\ post_ldl = o.post_ldl
    /\ runs = 0

Call(f, a, r) ==
    /\ fn' = f
    /\ args' = a
    /\ ret' = Some(r)
    /\ UNCHANGED appVars

\* ---- calculate_ldl_projection(baseline_ldl, pre_list, new_list) ----

\* Therapy identifiers passed: E's keys, the selectbox's "None" and a statin
\* dose E does not list.
TherapyIds == DOMAIN E \cup {"None", "Atorvastatin 20mg"}

\* Baseline LDL values passed, within the widget's range 0.5 .. 6.0 mmol/L.
LdlInputs == {LdlUnit \div 2, LdlUnit, 3 * LdlUnit, (7 * LdlUnit) \div 2, 6 * LdlUnit}

\* The longest pre_list and new_list passed.
MaxPre == 2
MaxNew == 1

InitLdl ==
    /\ ScriptIdle
    /\ fn = "calculate_ldl_projection"
    /\ \E b \in LdlInputs :
          /\ args = <<b, << >>, << >>>>
          /\ ret = Some(calculate_ldl_projection(b, << >>, << >>))

\* The same call with drug appended to pre_list.
AddPre(drug) ==
    /\ Len(args[2]) < MaxPre
    /\ LET pre == Append(args[2], drug)
       IN  Call(fn, <<args[1], pre, args[3]>>,
                calculate_ldl_projection(args[1], pre, args[3]))

\* The same call with drug appended to new_list.
AddNew(drug) ==
    /\ Len(args[3]) < MaxNew
    /\ LET new == Append(args[3], drug)
       IN  Call(fn, <<args[1], args[2], new>>,
                calculate_ldl_projection(args[1], args[2], new))

NextLdl ==
    \/ \E d \in TherapyIds : AddPre(d)
    \/ \E d \in TherapyIds : AddNew(d)

SpecLdl == InitLdl /\ [][NextLdl]_vars

\* ---- estimate_10y_risk(age, sex, sbp, tc, hdl, smoker, diabetes, egfr, crp, vasc) ----

\* Values passed, each within its widget's range; vasc is a count of three flags.
AgeInputs == {30, 59, 60, 90}
SbpInputs == {90, 140, 141, 200}
TcInputs == {20, 52, 100}
CrpInputs == {1, 25, 26, 200}
VascInputs == 0..3
HdlInputs == {5, 30}
EgfrInputs == {15, 120}

Risk10(a) == estimate_10y_risk(a[1], a[2], a[3], a[4], a[5], a[6], a[7], a[8], a[9], a[10])

InitRisk ==
    /\ ScriptIdle
    /\ fn = "estimate_10y_risk"
    /\ \E sex \in {"Male", "Female"}, hdl \in HdlInputs, smoker \in BOOLEAN,
          diabetes \in BOOLEAN, egfr \in EgfrInputs :
          /\ args = <<30, sex, 90, 20, hdl, smoker, diabetes, egfr, 1, 0>>
          /\ ret = Some(Risk10(args))

\* The same call with argument i raised to v, the others as they were.
Raise(i, v) ==
    /\ v > args[i]
    /\ LET a == [args EXCEPT ![i] = v]
       IN  Call(fn, a, Risk10(a))

RaiseAge == \E v \in AgeInputs : Raise(1, v)
RaiseSbp == \E v \in SbpInputs : Raise(3, v)
RaiseTc == \E v \in TcInputs : Raise(4, v)
RaiseCrp == \E v \in CrpInputs : Raise(9, v)
RaiseVasc == \E v \in VascInputs : Raise(10, v)

NextRisk == RaiseAge \/ RaiseSbp \/ RaiseTc \/ RaiseCrp \/ RaiseVasc

SpecRisk == InitRisk /\ [][NextRisk]_vars

\* ---- convert_5yr(r10) ----

\* r10 is any float: the calls start around 0.1 percent, 1/FineUnit percent
\* apart, or at one unit, and go up a percent at a time past the cap.
InitConvert ==
    /\ ScriptIdle
    /\ fn = "convert_5yr"
    /\ \E r10 \in {1} \cup ((FineUnit \div 10 - 30) .. (FineUnit \div 10 + 10)) :
          /\ args = <<r10>>
          /\ ret = Some(convert_5yr(r10))

AddPercent ==
    /\ args[1] + FineUnit <= 100 * FineUnit
    /\ Call(fn, <<args[1] + FineUnit>>, convert_5yr(args[1] + FineUnit))

NextConvert == AddPercent

SpecConvert == InitConvert /\ [][NextConvert]_vars

(***************************************************************************)
(* The claims.                                                             *)
(***************************************************************************)

\* C1 (SpecLdl): for every baseline LDL in 0.5 .. 6.0 and every pre_list and
\* new_list (empty, with repeated therapies, with identifiers E does not
\* list), calculate_ldl_projection returns at least the floor of 0.5 mmol/L,
\* hence a value above zero.
C1_ProjectionNeverBelowFloor ==
    fn = "calculate_ldl_projection" =>
        /\ Val(ret) >= LdlFloor
        /\ Val(ret) > 0

\* C1's case: the therapies take the LDL below 0.5 and the floor is returned.
C1_FloorReached ==
    /\ fn = "calculate_ldl_projection"
    /\ Len(args[2]) + Len(args[3]) >= 2
    /\ LdlLoop(args[1], args[2] \o args[3]) < LdlFloor
    /\ Val(ret) = LdlFloor

\* C2 (SpecLdl): appending a therapy identifier to pre_list or to new_list
\* never raises the projection: each step of SpecLdl appends one identifier to
\* one of the two lists of the call, and the result after it is at most the
\* result before it.
C2_ProjectionNonIncreasing ==
    [][fn = "calculate_ldl_projection" => Val(ret') <= Val(ret)]_vars

\* C2's case: therapies were appended to both lists, one of them ahead of an
\* added therapy, and the projection is below the baseline and above the floor.
C2_TherapiesAppended ==
    /\ fn = "calculate_ldl_projection"
    /\ Len(args[2]) = 2
    /\ Len(args[3]) = 1
    /\ args[2][2] \in DOMAIN E
    /\ Val(ret) < args[1]
    /\ Val(ret) > LdlFloor

\* C8, as claimed (SpecLdl): baseline LDL 3.5 with the single pre-existing
\* therapy "Atorvastatin 20mg" and no added therapy projects to 2.1.
C8_Atorvastatin20Gives2_1 ==
    args = <<(7 * LdlUnit) \div 2, <<"Atorvastatin 20mg">>, << >>>> =>
        Val(ret) = (21 * LdlUnit) \div 10

\* C8, amended (SpecLdl): a single pre-existing therapy that E lists with
\* reduction p percent, and no added therapy, projects baseline b to
\* max(b * (1 - p/100), 0.5); baseline 3.5 with "Atorvastatin 80 mg" (50
\* percent) projects to 1.75; "Atorvastatin 20mg" is not in E and leaves 3.5.
C8_SingleTherapyProjection ==
    /\ (/\ fn = "calculate_ldl_projection"
        /\ Len(args[2]) = 1
        /\ args[3] = << >>
        /\ args[2][1] \in DOMAIN E)
       => Val(ret) = Max((args[1] \div 100) * (100 - E[args[2][1]]), LdlFloor)
    /\ args = <<(7 * LdlUnit) \div 2, <<"Atorvastatin 80 mg">>, << >>>>
       => Val(ret) = (175 * LdlUnit) \div 100
    /\ args = <<(7 * LdlUnit) \div 2, <<"Atorvastatin 20mg">>, << >>>>
       => Val(ret) = (7 * LdlUnit) \div 2

\* C8's case: baseline 3.5 under "Atorvastatin 80 mg" alone.
C8_Atorvastatin80Alone ==
    /\ fn = "calculate_ldl_projection"
    /\ args = <<(7 * LdlUnit) \div 2, <<"Atorvastatin 80 mg">>, << >>>>
    /\ Val(ret) = (175 * LdlUnit) \div 100

\* C9 (SpecRisk): estimate_10y_risk does not fall when one of age, systolic BP,
\* total cholesterol, CRP and the vascular-disease count is raised and the
\* other nine arguments stay as they were, after the rounding to one decimal
\* and the cap: each step of SpecRisk raises one of the five, and the result
\* after it is at least the result before it.
C9_Risk10NonDecreasing ==
    [][fn = "estimate_10y_risk" => Val(ret') >= Val(ret)]_vars

\* C9's case: all five arguments were raised and the risk, below the cap, is
\* above the risk at their lowest values.
C9_AllFiveRaised ==
    /\ fn = "estimate_10y_risk"
    /\ args[1] > 30 /\ args[3] > 90 /\ args[4] > 20 /\ args[9] > 1 /\ args[10] > 0
    /\ Val(ret) < RiskCap
    /\ Val(ret) > Risk10(<<30, args[2], 90, 20, args[5], args[6], args[7], args[8], 1, 0>>)

\* C3 (Spec): the RRR the Results step reports is never above 75 percent.
C3_RrrNeverAbove75 ==
    (~IsNone(results) /\ ~IsNone(Val(results).rrr10)) =>
        Val(Val(results).rrr10) <= 750

\* C4 (Spec): at age 85 or more the lifetime risk is a "not applicable"
\* sentinel and never zero: in what estimate_lifetime_risk returned, in the
\* displayed figure, in the chart, and in the ARR and RRR derived from it.
C4_LifetimeNotApplicableFrom85 ==
    (~IsNone(results) /\ session_state.age >= 85) =>
        /\ Val(results).rlt # 0
        /\ Val(results).lifetime_display = "N/A"
        /\ IsNone(Val(results).chart[3])
        /\ IsNone(Val(results).arr10)
        /\ IsNone(Val(results).rrr10)

\* C5 (SpecConvert): convert_5yr(r10) <= r10 for every r10 > 0, after the
\* rounding to one decimal and the cap.
C5_FiveYearAtMostTenYear ==
    (fn = "convert_5yr" /\ args[1] > 0) =>
        Val(ret) * (FineUnit \div 10) <= args[1]

\* C7 (Spec): with every therapy selection at its default and HbA1c at most
\* 7.0, the Results step reports the risk it subtracts from the baseline equal
\* to the baseline, ARR = 0 and RRR = 0.
C7_NoInterventionIdentity ==
    (/\ ~IsNone(results)
     /\ session_state.pre_stat = "None" /\ ~session_state.pre_ez /\ ~session_state.pre_bemp
     /\ session_state.new_stat = "None" /\ ~session_state.new_ez /\ ~session_state.new_bemp
     /\ session_state.hba1c <= 70)
    => /\ Val(results).rlt = Val(results).r10
       /\ Val(results).arr10 = Some(0)
       /\ Val(results).rrr10 = Some(0)

\* C10 (Spec): after any sequence of step selections no run ends in an error,
\* and a run of step "3: Therapies" has computed the projected LDL from the
\* session's ldl0.
C10_TherapiesStepRenders ==
    /\ error = ""
    /\ step = "3: Therapies" =>
          post_ldl = Some(calculate_ldl_projection(session_state.ldl0,
                              PreList(session_state), NewList(session_state)))

====
